---- MODULE Spec2Model ----
(***************************************************************************)
(* Model of fb.py: a Telegram bot that fetches news/facts, asks Gemini for *)
(* caption variants, picks an image (article thumbnail, generated          *)
(* illustration or none) and sends one carousel message per article.       *)
(*                                                                         *)
(* State: the two module-level dicts CHAT_CONF and MSG_STATE, the          *)
(* temporary files created with tempfile.mkstemp, Telegram's per-chat      *)
(* message ids, and the frames of the handlers in progress.  Every handler *)
(* is split at its awaits: a step runs the code from the return of one     *)
(* awaited call up to the next await, where the handler is suspended and   *)
(* the event loop could run something else.  The frame of a handler is in  *)
(* `calls`, or in `runs` once a "go" callback is inside its article loop.  *)
(***************************************************************************)
EXTENDS Integers, Sequences, FiniteSets, TLC

\* ------------------------------------------------------------------ bounds

\* Total number of source articles fetched over all "go" runs.
MaxJobs == 2

\* Number of updates (commands and callbacks) the bot receives from its start.
\* Sequences of navigation callbacks on registered messages are the subject
\* of SpecNav, under MaxNavs.
MaxUpdates == 2

\* Number of navigation callbacks the bot receives after a "go" run.
MaxNavs == 4

\* Longest "variants" array in a Gemini response.
MaxResp == 6

\* ------------------------------------------------------- program constants

DEF_MODE == "news"
DEF_LANG == "id"
DEF_VAR == 4
DEF_CNT == 3

IMAGE_MODELS ==
    <<"gemini-2.5-flash-image-preview", "imagen-3.0-generate-001", "imagen-3.0">>

\* The chats that talk to the bot.
Chats == {1, 2}

None == "None"

\* No MSG_STATE key (message ids start at 1).
NoKey == <<0, 0>>

\* q.message of a callback pressed on a menu message (their ids are not
\* tracked; carousel messages are identified by their id).
MenuMessage == 0

\* q.message of a callback pressed on a carousel message that an earlier
\* process of the bot sent: Telegram keeps its buttons, the MSG_STATE of this
\* process never had an entry for it.
OldMessage == -1

\* ------------------------------------------------------------ dict helpers

EmptyDict == [k \in {} |-> k]

DictSet(d, k, v) == [x \in (DOMAIN d) \cup {k} |-> IF x = k THEN v ELSE d[x]]

DictPop(d, ks) == [x \in (DOMAIN d) \ ks |-> d[x]]

Min(a, b) == IF a < b THEN a ELSE b

Max(a, b) == IF a > b THEN a ELSE b

\* Python's arr[:n] for n >= 0.
Take(arr, n) == SubSeq(arr, 1, Min(Len(arr), n))

RECURSIVE Filter(_, _)
Filter(arr, keep) ==
    IF arr = <<>> THEN <<>>
    ELSE (IF Head(arr) \in keep THEN <<Head(arr)>> ELSE <<>>) \o Filter(Tail(arr), keep)

\* ------------------------------------------- gemini_variants_for_item (117-168)

\* One element of the "variants" array of the response:
\*   "ok"      a dict with a string title and a list of string hashtags
\*   "odd"     a dict with a truthy non-string title (or non-string hashtags):
\*             it passes the filter of line 155 but cannot be rendered
\*   "notdict" not a dict; "notitle" title missing or empty; "badtags" hashtags
\*             missing or not a list
EntryKinds == {"ok", "odd", "notdict", "notitle", "badtags"}

\* The entries line 155 keeps.
KeptKinds == {"ok", "odd"}

\* The single fallback variant returned by the except branch (162-168).
FALLBACK_VARIANTS == <<"fallback">>

\* A Gemini text response: the call raised, the text is not JSON, or it is a
\* JSON object whose "variants" is the given array (absent = empty array).
RespRaise == [kind |-> "raise", entries |-> <<>>]
RespBadJson == [kind |-> "badjson", entries |-> <<>>]
RespList(es) == [kind |-> "list", entries |-> es]

gemini_variants_for_item(resp, nvar) ==
    IF resp.kind # "list"
    THEN FALLBACK_VARIANTS
    ELSE LET arr == Take(Filter(resp.entries, KeptKinds), Max(1, Min(5, nvar)))
         IN  IF arr = <<>> THEN FALLBACK_VARIANTS ELSE arr

\* build_caption_html (295-300) raises (AttributeError in html.escape or
\* str.startswith) exactly when the variant's title/hashtags are not strings.
build_caption_html_ok(v) == v # "odd"

\* --------------------------------------- gemini_generate_image_file (215-244)

\* What one iteration of the loop over IMAGE_MODELS does:
\*   "inline"      the response carries inline image bytes (line 231), written
\*                 to a new temporary file
\*   "datauri"     no inline part, but resp.text carries a data:image URI
\*                 (234-236), written to a new temporary file
\*   "noimage"     neither: img_bytes stays empty, the loop goes on
\*   "raises"      the call or the decoding raised (line 242), no file made
\*   "write_fails" bytes were obtained and tempfile.mkstemp made the file
\*                 (238), then writing raised (239-240, caught at 242): the
\*                 file stays and the loop goes on
ModelOutcomes == {"inline", "datauri", "noimage", "raises", "write_fails"}

YieldsImage(o) == o \in {"inline", "datauri"}

\* The iteration called tempfile.mkstemp.
MakesFile(o) == o \in {"inline", "datauri", "write_fails"}

\* Returns the model whose bytes were written (None when the loop ran out),
\* the models tried, in the order they were tried, and the number of
\* temporary files the call created.
RECURSIVE generate_from(_, _, _, _)
generate_from(outcomes, k, tried, made) ==
    IF k > Len(IMAGE_MODELS)
    THEN [model |-> None, tried |-> tried, made |-> made]
    ELSE LET m == made + (IF MakesFile(outcomes[k]) THEN 1 ELSE 0)
         IN  IF YieldsImage(outcomes[k])
             THEN [model |-> IMAGE_MODELS[k], tried |-> Append(tried, IMAGE_MODELS[k]),
                   made |-> m]
             ELSE generate_from(outcomes, k + 1, Append(tried, IMAGE_MODELS[k]), m)

\* A loop that forgets the "return path" of line 241 and keeps the last success.
RECURSIVE generate_last(_, _, _, _, _)
generate_last(outcomes, k, tried, made, best) ==
    IF k > Len(IMAGE_MODELS)
    THEN [model |-> best, tried |-> tried, made |-> made]
    ELSE generate_last(outcomes, k + 1, Append(tried, IMAGE_MODELS[k]),
                       made + (IF MakesFile(outcomes[k]) THEN 1 ELSE 0),
                       IF YieldsImage(outcomes[k]) THEN IMAGE_MODELS[k] ELSE best)

gemini_generate_image_file_last(outcomes) == generate_last(outcomes, 1, <<>>, 0, None)

gemini_generate_image_file(outcomes) == generate_from(outcomes, 1, <<>>, 0)

\* tempfile.mkstemp: a name no existing file has.
RECURSIVE mkstemp_from(_, _)
mkstemp_from(files, n) == IF n \in files THEN mkstemp_from(files, n + 1) ELSE n

mkstemp(files) == mkstemp_from(files, 1)

\* The directory after n calls of tempfile.mkstemp.
RECURSIVE mkstemp_times(_, _)
mkstemp_times(files, n) ==
    IF n = 0 THEN files ELSE mkstemp_times(files \cup {mkstemp(files)}, n - 1)

\* ------------------------------------------------------------------- state

VARIABLES
    CHAT_CONF,    \* dict chat_id -> [mode, lang, variants, count]        (line 59)
    MSG_STATE,    \* dict <<chat_id, message_id>> -> [variants, index, url] (line 60)
    next_mid,     \* per chat: the message id Telegram gives the next message the bot sends
    keyboards,    \* the messages that carry kb_for_variants: key -> "photo" or "text"
    tmp_files,    \* the files made by tempfile.mkstemp that exist on disk
    job_counter,  \* source articles handed to the article loop so far
    update_id,    \* updates taken from Telegram so far
    calls,        \* frames of the handlers in progress outside the article loop, by update
    runs,         \* frames of the "go" callbacks inside the article loop, by update
    reported,     \* history: the articles, numbered in submission order, whose outcome
                  \* (result message or failure notification) was delivered to the chat
    nav_trail,    \* history: the nav callbacks that acted on a registered message, in order
    fn_in,        \* input of the function-level specifications
    fn_out        \* result of the function-level specifications

vars ==
    <<CHAT_CONF, MSG_STATE, next_mid, keyboards, tmp_files, job_counter, update_id,
      calls, runs, reported, nav_trail, fn_in, fn_out>>

bot_vars ==
    <<CHAT_CONF, MSG_STATE, next_mid, keyboards, tmp_files, job_counter, update_id,
      calls, runs, reported, nav_trail>>

fn_vars == <<fn_in, fn_out>>

\* ------------------------------------------------------------ init_chat (249-254)

DefaultConf ==
    [mode |-> DEF_MODE, lang |-> DEF_LANG, variants |-> DEF_VAR, count |-> DEF_CNT]

\* Every entry of CHAT_CONF is created here with all four keys, so the
\* setdefault calls only act on a chat that had no entry.
init_chat(conf, cid) ==
    IF cid \in DOMAIN conf THEN conf ELSE DictSet(conf, cid, DefaultConf)

\* ------------------------------------------------------------ update dispatch

\* The handlers in progress.
InProgress == (DOMAIN calls) \cup (DOMAIN runs)

\* A dispatcher that serialises the updates of one chat only.
DispatchPerChat(cid) ==
    /\ \A u \in DOMAIN calls : calls[u].cid # cid
    /\ \A r \in DOMAIN runs : runs[r].cid # cid

\* main() builds the Application without concurrent_updates, and both handlers
\* are blocking: the next update is processed only when the handler of the
\* previous one has returned or raised.
DispatchReady(cid) == InProgress = {}

\* The Application takes the next update off its queue, while fewer than
\* max updates were taken.
TakeUpdateWithin(cid, max) ==
    /\ DispatchReady(cid)
    /\ update_id < max
    /\ update_id' = update_id + 1

TakeUpdate(cid) == TakeUpdateWithin(cid, MaxUpdates)

\* fn_in and fn_out while the bot runs: no function-level call is under way.
NoCall == [resp |-> RespRaise, nvar |-> 0, outcomes |-> <<>>]

NoResult ==
    [called |-> FALSE, variants |-> <<>>,
     image |-> [model |-> None, tried |-> <<>>, made |-> 0]]

InitBot ==
    /\ CHAT_CONF = EmptyDict
    /\ MSG_STATE = EmptyDict
    /\ next_mid = [c \in Chats |-> 1]
    /\ keyboards = EmptyDict
    /\ tmp_files = {}
    /\ job_counter = 0
    /\ update_id = 0
    /\ calls = EmptyDict
    /\ runs = EmptyDict
    /\ reported = {}
    /\ nav_trail = <<>>

Init ==
    /\ InitBot
    /\ fn_in = NoCall
    /\ fn_out = NoResult

\* The frame of a handler: the chat, the command or the split callback data
\* (line 331), q.message (MenuMessage or the id of a carousel message), the
\* await it is suspended at, and the locals read after an await.
NewCall(cid, data, mid, pc) ==
    [cid |-> cid, data |-> data, mid |-> mid, pc |-> pc,
     nvar |-> 0,           \* go: nvar (365)
     cnt |-> 0]            \* go: cnt (365)

\* The handler returns or raises (the Application logs the exception): its
\* frame is gone.
end_call(cs, u) == DictPop(cs, {u})

\* Telegram gives the n messages the bot sends to a chat the next n ids.
bot_sends(mids, cid, n) == [mids EXCEPT ![cid] = @ + n]

\* ------------------------------------------------------------ /start (313-324)

\* Lines 314-316: init_chat, then the handler is suspended at the first
\* reply_text.
Start(cid) ==
    /\ TakeUpdate(cid)
    /\ CHAT_CONF' = init_chat(CHAT_CONF, cid)
    /\ calls' = DictSet(calls, update_id + 1, NewCall(cid, <<"start">>, MenuMessage, "reply1"))
    /\ UNCHANGED <<MSG_STATE, next_mid, keyboards, tmp_files, job_counter, runs, fn_vars,
                   reported, nav_trail>>

\* Lines 316-324: the welcome text is delivered and the handler is suspended
\* at the reply_text of the menu, or the first reply_text raises.
StartWelcomed(u, ok) ==
    /\ u \in DOMAIN calls
    /\ calls[u].pc = "reply1"
    /\ next_mid' = bot_sends(next_mid, calls[u].cid, IF ok THEN 1 ELSE 0)
    /\ calls' = IF ok THEN [calls EXCEPT ![u].pc = "reply2"] ELSE end_call(calls, u)
    /\ UNCHANGED <<CHAT_CONF, MSG_STATE, keyboards, tmp_files, job_counter, update_id,
                   runs, fn_vars, reported, nav_trail>>

\* Line 324: the menu is delivered or the reply_text raises; the handler ends.
StartMenuSent(u, ok) ==
    /\ u \in DOMAIN calls
    /\ calls[u].pc = "reply2"
    /\ next_mid' = bot_sends(next_mid, calls[u].cid, IF ok THEN 1 ELSE 0)
    /\ calls' = end_call(calls, u)
    /\ UNCHANGED <<CHAT_CONF, MSG_STATE, keyboards, tmp_files, job_counter, update_id,
                   runs, fn_vars, reported, nav_trail>>

\* ------------------------------------------------------------ on_cb (326-331)

\* Lines 327-328: a callback query is dispatched and on_cb is suspended at
\* q.answer().
CallbackWithin(cid, data, mid, max) ==
    /\ TakeUpdateWithin(cid, max)
    /\ calls' = DictSet(calls, update_id + 1, NewCall(cid, data, mid, "answer"))
    /\ UNCHANGED <<CHAT_CONF, MSG_STATE, next_mid, keyboards, tmp_files, job_counter,
                   runs, fn_vars, reported, nav_trail>>

OnCallback(cid, data, mid) == CallbackWithin(cid, data, mid, MaxUpdates)

\* q.answer() raises: the handler ends before init_chat.
AnswerRaises(u) ==
    /\ u \in DOMAIN calls
    /\ calls[u].pc = "answer"
    /\ calls' = end_call(calls, u)
    /\ UNCHANGED <<CHAT_CONF, MSG_STATE, next_mid, keyboards, tmp_files, job_counter,
                   update_id, runs, fn_vars, reported, nav_trail>>

\* q.answer() returned in a callback of the given branch.
Answered(u, branch) ==
    /\ u \in DOMAIN calls
    /\ calls[u].pc = "answer"
    /\ calls[u].data[1] = branch

\* ------------------------------------------------------ on_cb: conf (334-349)

\* Callback data of the four rows of the menu (277-286), after "conf:".
ConfData ==
    {<<"mode", "news">>, <<"mode", "facts">>,
     <<"lang", "id">>, <<"lang", "en">>,
     <<"var", "3">>, <<"var", "4">>, <<"var", "5">>,
     <<"cnt", "1">>, <<"cnt", "3">>, <<"cnt", "5">>}

\* Python's int() on the numerals of the callback data.
int(val) ==
    CASE val = "1" -> 1
      [] val = "3" -> 3
      [] val = "4" -> 4
      [] val = "5" -> 5

conf_set(st, key, val) ==
    IF key = "mode" THEN [st EXCEPT !.mode = val]
    ELSE IF key = "lang" THEN [st EXCEPT !.lang = val]
    ELSE IF key = "var" THEN [st EXCEPT !.variants = Max(3, Min(5, int(val)))]
    ELSE IF key = "cnt" THEN [st EXCEPT !.count = Max(1, Min(5, int(val)))]
    ELSE st

\* Lines 330-346: init_chat, the setting is stored, and the handler is
\* suspended at the edit of the menu message.
OnConf(u) ==
    /\ Answered(u, "conf")
    /\ LET c == calls[u]
           conf == init_chat(CHAT_CONF, c.cid)
       IN  CHAT_CONF' = [conf EXCEPT ![c.cid] = conf_set(conf[c.cid], c.data[2], c.data[3])]
    /\ calls' = [calls EXCEPT ![u].pc = "edit"]
    /\ UNCHANGED <<MSG_STATE, next_mid, keyboards, tmp_files, job_counter, update_id,
                   runs, fn_vars, reported, nav_trail>>

EditOutcomes == {"ok", "bad_request", "raises"}

\* Lines 345-349: the edit returns or raises something else and the handler
\* ends, or it raises BadRequest and the handler is suspended at
\* edit_message_reply_markup.  The menu is edited in place: no new message.
ConfEdited(u, outcome) ==
    /\ u \in DOMAIN calls
    /\ calls[u].pc = "edit"
    /\ calls[u].data[1] = "conf"
    /\ calls' = IF outcome = "bad_request" THEN [calls EXCEPT ![u].pc = "markup"]
                ELSE end_call(calls, u)
    /\ UNCHANGED <<CHAT_CONF, MSG_STATE, next_mid, keyboards, tmp_files, job_counter,
                   update_id, runs, fn_vars, reported, nav_trail>>

\* Lines 348-349: edit_message_reply_markup returns or raises.
ConfMarkupEdited(u) ==
    /\ u \in DOMAIN calls
    /\ calls[u].pc = "markup"
    /\ calls' = end_call(calls, u)
    /\ UNCHANGED <<CHAT_CONF, MSG_STATE, next_mid, keyboards, tmp_files, job_counter,
                   update_id, runs, fn_vars, reported, nav_trail>>

\* ----------------------------------------------------- on_cb: reset (352-360)

\* Lines 330, 353-358: the chat's configuration and carousel states are
\* dropped, the defaults stored, and the handler is suspended at the edit of
\* the message the button was pressed on.
OnReset(u) ==
    /\ Answered(u, "reset")
    /\ LET cid == calls[u].cid
       IN  /\ CHAT_CONF' = init_chat(DictPop(CHAT_CONF, {cid}), cid)
           /\ MSG_STATE' = DictPop(MSG_STATE, {k \in DOMAIN MSG_STATE : k[1] = cid})
    /\ calls' = [calls EXCEPT ![u].pc = "edit"]
    /\ UNCHANGED <<next_mid, keyboards, tmp_files, job_counter, update_id, runs, fn_vars,
                   reported, nav_trail>>

\* Telegram edits the text of a text message and the caption of a photo
\* message only: edit_message_text on a photo message and
\* edit_message_caption on a text message are BadRequests.
is_photo(kbs, key) == key \in DOMAIN kbs /\ kbs[key] = "photo"

\* Lines 358-359: the edit replaces the message by "Reset..." without
\* reply_markup, so a carousel message loses its buttons, and the handler is
\* suspended at the send of the new menu; or the edit raises.
ResetEdited(u, ok) ==
    /\ u \in DOMAIN calls
    /\ calls[u].pc = "edit"
    /\ calls[u].data[1] = "reset"
    /\ LET key == <<calls[u].cid, calls[u].mid>>
       IN  /\ ok => ~is_photo(keyboards, key)
           /\ keyboards' = IF ok THEN DictPop(keyboards, {key}) ELSE keyboards
    /\ calls' = IF ok THEN [calls EXCEPT ![u].pc = "send"] ELSE end_call(calls, u)
    /\ UNCHANGED <<CHAT_CONF, MSG_STATE, next_mid, tmp_files, job_counter, update_id,
                   runs, fn_vars, reported, nav_trail>>

\* Lines 359-360: the new menu is delivered or the send raises.
ResetMenuSent(u, ok) ==
    /\ u \in DOMAIN calls
    /\ calls[u].pc = "send"
    /\ calls[u].data[1] = "reset"
    /\ next_mid' = bot_sends(next_mid, calls[u].cid, IF ok THEN 1 ELSE 0)
    /\ calls' = end_call(calls, u)
    /\ UNCHANGED <<CHAT_CONF, MSG_STATE, keyboards, tmp_files, job_counter, update_id,
                   runs, fn_vars, reported, nav_trail>>

\* ------------------------------------------------------- on_cb: nav (463-502)

NavActions == {"prev", "next", "all"}

\* Navigation that stops at both ends instead of wrapping.
nav_index_nowrap(action, idx, n) ==
    IF action = "prev" THEN Max(0, idx - 1)
    ELSE IF action = "next" THEN Min(n - 1, idx + 1)
    ELSE idx

\* Python's % with a positive modulus is never negative, like TLA+'s.
nav_index(action, idx, n) ==
    IF action = "prev" THEN (idx - 1) % n
    ELSE IF action = "next" THEN (idx + 1) % n
    ELSE idx

\* Lines 330, 464-495: without a state for the message the handler is
\* suspended at the alert (466); "all" renders every variant and is suspended
\* at the send of the list (486); prev and next store the new index (489),
\* render the variant and are suspended at edit_message_caption (495).  When
\* a variant cannot be rendered the exception ends the handler on the spot.
OnNav(u) ==
    /\ Answered(u, "nav")
    /\ LET c == calls[u]
           key == <<c.cid, c.mid>>
           action == c.data[2]
       IN  /\ CHAT_CONF' = init_chat(CHAT_CONF, c.cid)
           /\ IF key \notin DOMAIN MSG_STATE
              THEN /\ UNCHANGED <<MSG_STATE, nav_trail>>
                   /\ calls' = [calls EXCEPT ![u].pc = "alert"]
              ELSE LET st == MSG_STATE[key]
                       arr == st.variants
                       idx == nav_index(action, st.index, Len(arr))
                       rendered == IF action = "all"
                                   THEN \A i \in DOMAIN arr : build_caption_html_ok(arr[i])
                                   ELSE build_caption_html_ok(arr[idx + 1])
                   IN  /\ MSG_STATE' =
                             IF action = "all" THEN MSG_STATE
                             ELSE [MSG_STATE EXCEPT ![key].index = idx]
                       /\ calls' =
                             IF ~rendered THEN end_call(calls, u)
                             ELSE [calls EXCEPT
                                     ![u].pc = IF action = "all" THEN "send" ELSE "caption"]
                       /\ nav_trail' = Append(nav_trail,
                             [key |-> key, action |-> action, n |-> Len(arr),
                              before |-> st.index, after |-> MSG_STATE'[key].index])
    /\ UNCHANGED <<next_mid, keyboards, tmp_files, job_counter, update_id, runs, fn_vars,
                   reported>>

\* Line 466: the alert is answered or raises.
NavAlerted(u) ==
    /\ u \in DOMAIN calls
    /\ calls[u].pc = "alert"
    /\ calls' = end_call(calls, u)
    /\ UNCHANGED <<CHAT_CONF, MSG_STATE, next_mid, keyboards, tmp_files, job_counter,
                   update_id, runs, fn_vars, reported, nav_trail>>

\* Lines 486-487: the message with all variants is delivered or the send
\* raises.
NavAllSent(u, ok) ==
    /\ u \in DOMAIN calls
    /\ calls[u].pc = "send"
    /\ calls[u].data[1] = "nav"
    /\ next_mid' = bot_sends(next_mid, calls[u].cid, IF ok THEN 1 ELSE 0)
    /\ calls' = end_call(calls, u)
    /\ UNCHANGED <<CHAT_CONF, MSG_STATE, keyboards, tmp_files, job_counter, update_id,
                   runs, fn_vars, reported, nav_trail>>

\* Lines 494-499: edit_message_caption returns or raises something else and
\* the handler ends, or it raises BadRequest (a text message has no caption)
\* and the handler is suspended at edit_message_text.
NavCaptionEdited(u, outcome) ==
    /\ u \in DOMAIN calls
    /\ calls[u].pc = "caption"
    /\ outcome = "ok" => is_photo(keyboards, <<calls[u].cid, calls[u].mid>>)
    /\ calls' = IF outcome = "bad_request" THEN [calls EXCEPT ![u].pc = "text"]
                ELSE end_call(calls, u)
    /\ UNCHANGED <<CHAT_CONF, MSG_STATE, next_mid, keyboards, tmp_files, job_counter,
                   update_id, runs, fn_vars, reported, nav_trail>>

\* Lines 499-502: edit_message_text returns, or raises and is ignored.
NavTextEdited(u) ==
    /\ u \in DOMAIN calls
    /\ calls[u].pc = "text"
    /\ calls' = end_call(calls, u)
    /\ UNCHANGED <<CHAT_CONF, MSG_STATE, next_mid, keyboards, tmp_files, job_counter,
                   update_id, runs, fn_vars, reported, nav_trail>>

\* -------------------------------------------------------- on_cb: go (363-460)

\* A source article: whether the feed gave it a thumbnail URL, and its link.
Items == {[image |-> TRUE, url |-> "u"], [image |-> FALSE, url |-> "u"]}

\* requests.get of the thumbnail and the writing of the file (410-417):
\*   "ok"           status 200 and the file written: img_path is the file
\*   "failed"       another status, or requests.get raised: no file
\*   "write_failed" status 200, tempfile.mkstemp made the file (413), then
\*                  writing raised (caught at 416): img_path = None, the
\*                  file stays
DownloadOutcomes == {"ok", "failed", "write_failed"}

\* The Gemini responses and image-model outcomes the article loop is run with.
LoopResponses(nvar) ==
    {RespRaise, RespList([i \in 1..nvar |-> "ok"]), RespList(<<"odd">>),
     RespList(<<"ok", "odd">>)}

LoopModelOutcomes ==
    {<<"raises", "noimage", "raises">>,
     <<"write_fails", "datauri", "inline">>}

\* Step 2 of the loop body (406-422): which image the article gets.
\*   kind    "thumb" the downloaded thumbnail, "gen" a generated illustration,
\*           "text" no image
\*   gen     the image-model outcomes when generation was attempted, else <<>>
\*   made    the number of temporary files created on the way
select_image(item, dl, models) ==
    LET orphan == IF item.image /\ dl = "write_failed" THEN 1 ELSE 0
        g == gemini_generate_image_file(models)
    IN  IF item.image /\ dl = "ok" THEN [kind |-> "thumb", gen |-> <<>>, made |-> 1]
        ELSE [kind |-> IF g.model # None THEN "gen" ELSE "text",
              gen |-> models, made |-> orphan + g.made]

\* The locals of the loop body while the result message is being sent and
\* registered (the later steps read none of them).
BlankCur ==
    [variants |-> <<>>,    \* result of gemini_variants_for_item
     dl |-> None,          \* thumbnail download outcome, when one was attempted
     gen |-> <<>>,         \* image-model outcomes, when generation was attempted
     kind |-> None]        \* the image selected

\* What has happened so far to the article the loop is at.
BlankJob ==
    [begun |-> FALSE,      \* the loop body was entered for it
     selected |-> FALSE,   \* step 2 of the body chose its image (or none)
     sent |-> FALSE,       \* send_photo / send_message of the result returned
     key |-> NoKey]        \* its MSG_STATE key

\* The frame of a "go" callback inside the loop of line 397: sources[i] is
\* item, sources[i+1:] is rest, n is len(sources); base articles were
\* submitted by earlier runs, so sources[i] is article base + i overall.
NewRun(cid, nvar, sources, base) ==
    [cid |-> cid, nvar |-> nvar, n |-> Len(sources), i |-> 1, base |-> base,
     item |-> Head(sources), rest |-> Tail(sources), pc |-> "loop",
     cur |-> BlankCur, job |-> BlankJob,
     files |-> {}]         \* temporary files this run created

\* Lines 330, 364-366: init_chat, the settings are read, and the handler is
\* suspended at the edit of the menu message ("Mengambil sumber...").
GoStart(u) ==
    /\ Answered(u, "go")
    /\ LET cid == calls[u].cid
           conf == init_chat(CHAT_CONF, cid)
       IN  /\ CHAT_CONF' = conf
           /\ calls' = [calls EXCEPT ![u].pc = "edit",
                                     ![u].nvar = conf[cid].variants,
                                     ![u].cnt = conf[cid].count]
    /\ UNCHANGED <<MSG_STATE, next_mid, keyboards, tmp_files, job_counter, update_id,
                   runs, fn_vars, reported, nav_trail>>

\* Lines 366-397: the edit raises and the handler ends; or the sources are
\* fetched (no await): when fetching raised (388-390) or found nothing
\* (392-394) the handler is suspended at the send of the notice, else it
\* enters the article loop.
GoFetched(u, edit_ok, fetch) ==
    /\ u \in DOMAIN calls
    /\ calls[u].pc = "edit"
    /\ calls[u].data[1] = "go"
    /\ LET c == calls[u]
       IN  IF ~edit_ok
           THEN /\ calls' = end_call(calls, u)
                /\ UNCHANGED <<job_counter, runs>>
           ELSE IF fetch.raised \/ fetch.sources = <<>>
           THEN /\ calls' = [calls EXCEPT ![u].pc = "send"]
                /\ UNCHANGED <<job_counter, runs>>
           ELSE /\ Len(fetch.sources) <= c.cnt
                /\ job_counter + Len(fetch.sources) <= MaxJobs
                /\ job_counter' = job_counter + Len(fetch.sources)
                /\ runs' = DictSet(runs, u, NewRun(c.cid, c.nvar, fetch.sources, job_counter))
                /\ calls' = end_call(calls, u)
    /\ UNCHANGED <<CHAT_CONF, MSG_STATE, next_mid, keyboards, tmp_files, update_id, fn_vars,
                   reported, nav_trail>>

\* Lines 389-390 and 393-394: the notice is delivered or the send raises.
GoNoticeSent(u, ok) ==
    /\ u \in DOMAIN calls
    /\ calls[u].pc = "send"
    /\ calls[u].data[1] = "go"
    /\ next_mid' = bot_sends(next_mid, calls[u].cid, IF ok THEN 1 ELSE 0)
    /\ calls' = end_call(calls, u)
    /\ UNCHANGED <<CHAT_CONF, MSG_STATE, keyboards, tmp_files, job_counter, update_id,
                   runs, fn_vars, reported, nav_trail>>

\* The for statement of line 397 after the body ended for sources[i]: the
\* body is entered for the next article, or the loop is over and the handler
\* returns (460), which ends its frame.
next_item(rs, r) ==
    LET run == rs[r]
    IN  IF run.rest # <<>>
        THEN [rs EXCEPT ![r] =
                [run EXCEPT !.i = @ + 1, !.item = Head(run.rest), !.rest = Tail(run.rest),
                            !.pc = "loop", !.cur = BlankCur, !.job = BlankJob]]
        ELSE DictPop(rs, {r})

\* Lines 399-431, up to the await of send_photo (427) or send_message (434):
\* variants, caption, image; none of the calls in between is awaited.  The
\* temporary files of the article exist from here on.
PrepareArticle(r, resp, dl, models) ==
    /\ r \in DOMAIN runs
    /\ runs[r].pc = "loop"
    /\ LET run == runs[r]
           item == run.item
           variants == gemini_variants_for_item(resp, run.nvar)
           sel == select_image(item, dl, models)
           files == mkstemp_times(tmp_files, sel.made)
           job0 == [run.job EXCEPT !.begun = TRUE]
       IN  IF ~build_caption_html_ok(variants[1])
           THEN \* build_caption_html raised (402-404)
                /\ runs' = [runs EXCEPT ![r] = [run EXCEPT !.pc = "notify", !.job = job0]]
                /\ UNCHANGED tmp_files
           ELSE /\ tmp_files' = files
                /\ runs' = [runs EXCEPT ![r] =
                      [run EXCEPT
                          !.pc = "send",
                          !.files = @ \cup (files \ tmp_files),
                          !.cur = [variants |-> variants,
                                   dl |-> IF item.image THEN dl ELSE None,
                                   gen |-> sel.gen,
                                   kind |-> sel.kind],
                          !.job = [job0 EXCEPT !.selected = TRUE]]]
    /\ UNCHANGED <<CHAT_CONF, MSG_STATE, next_mid, keyboards, job_counter, update_id,
                   calls, fn_vars, reported, nav_trail>>

\* Lines 427-446: the awaited send of the result message returns, and the
\* handler registers the message in MSG_STATE (442), or the send raises.
SendResult(r, ok) ==
    /\ r \in DOMAIN runs
    /\ runs[r].pc = "send"
    /\ LET run == runs[r]
           mid == next_mid[run.cid]
           key == <<run.cid, mid>>
       IN  IF ok
           THEN /\ MSG_STATE' = DictSet(MSG_STATE, key,
                      [variants |-> run.cur.variants, index |-> 0, url |-> run.item.url])
                /\ next_mid' = bot_sends(next_mid, run.cid, 1)
                /\ keyboards' = DictSet(keyboards, key,
                                        IF run.cur.kind = "text" THEN "text" ELSE "photo")
                /\ runs' = [runs EXCEPT ![r] =
                      [run EXCEPT !.pc = "info",
                                  !.job = [@ EXCEPT !.sent = TRUE, !.key = key]]]
                /\ reported' = reported \cup {run.base + run.i}
           ELSE /\ runs' = [runs EXCEPT ![r] =
                      [run EXCEPT !.pc = "notify", !.cur = BlankCur]]
                /\ UNCHANGED <<MSG_STATE, next_mid, keyboards, reported>>
    /\ UNCHANGED <<CHAT_CONF, tmp_files, job_counter, update_id, calls, fn_vars, nav_trail>>

\* Lines 448-455: the "Sumber" message, still inside the try block.
SendInfo(r, ok) ==
    /\ r \in DOMAIN runs
    /\ runs[r].pc = "info"
    /\ LET run == runs[r]
       IN  /\ runs' = IF ok THEN next_item(runs, r)
                      ELSE [runs EXCEPT ![r] =
                              [run EXCEPT !.pc = "notify", !.cur = BlankCur]]
           /\ next_mid' = bot_sends(next_mid, run.cid, IF ok THEN 1 ELSE 0)
    /\ UNCHANGED <<CHAT_CONF, MSG_STATE, keyboards, tmp_files, job_counter, update_id,
                   calls, fn_vars, reported, nav_trail>>

\* Lines 457-458: the except branch sends the failure notification.  When the
\* send returns the loop goes on; when it raises, the exception leaves the
\* loop and the handler (the Application logs it), which ends the frame.
NotifyFailure(r, ok) ==
    /\ r \in DOMAIN runs
    /\ runs[r].pc = "notify"
    /\ LET run == runs[r]
       IN  /\ runs' = IF ok THEN next_item(runs, r) ELSE DictPop(runs, {r})
           /\ next_mid' = bot_sends(next_mid, run.cid, IF ok THEN 1 ELSE 0)
           /\ reported' = IF ok THEN reported \cup {run.base + run.i} ELSE reported
    /\ UNCHANGED <<CHAT_CONF, MSG_STATE, keyboards, tmp_files, job_counter, update_id,
                   calls, fn_vars, nav_trail>>

\* -------------------------------------------------------------- the bot

FetchResults ==
    {[raised |-> TRUE, sources |-> <<>>]}
    \cup {[raised |-> FALSE, sources |-> s] : s \in UNION {[1..n -> Items] : n \in 0..MaxJobs}}

\* The callback queries a chat can send: the buttons of a menu message
\* (277-289), the buttons of the carousel messages it has (302-308), and the
\* navigation buttons of a carousel message of an earlier process.
Callbacks(cid) ==
    {[data |-> <<"conf", kv[1], kv[2]>>, mid |-> MenuMessage] : kv \in ConfData}
    \cup {[data |-> <<"go">>, mid |-> MenuMessage], [data |-> <<"reset">>, mid |-> MenuMessage]}
    \cup {[data |-> <<"nav", a>>, mid |-> OldMessage] : a \in NavActions}
    \cup {[data |-> d, mid |-> k[2]] :
            d \in {<<"nav", a>> : a \in NavActions} \cup {<<"reset">>},
            k \in {x \in DOMAIN keyboards : x[1] = cid}}

Next ==
    \/ \E cid \in Chats : Start(cid)
    \/ \E u \in DOMAIN calls, ok \in BOOLEAN : StartWelcomed(u, ok)
    \/ \E u \in DOMAIN calls, ok \in BOOLEAN : StartMenuSent(u, ok)
    \/ \E cid \in Chats : \E q \in Callbacks(cid) : OnCallback(cid, q.data, q.mid)
    \/ \E u \in DOMAIN calls : AnswerRaises(u)
    \/ \E u \in DOMAIN calls : OnConf(u)
    \/ \E u \in DOMAIN calls, o \in EditOutcomes : ConfEdited(u, o)
    \/ \E u \in DOMAIN calls : ConfMarkupEdited(u)
    \/ \E u \in DOMAIN calls : OnReset(u)
    \/ \E u \in DOMAIN calls, ok \in BOOLEAN : ResetEdited(u, ok)
    \/ \E u \in DOMAIN calls, ok \in BOOLEAN : ResetMenuSent(u, ok)
    \/ \E u \in DOMAIN calls : OnNav(u)
    \/ \E u \in DOMAIN calls : NavAlerted(u)
    \/ \E u \in DOMAIN calls, ok \in BOOLEAN : NavAllSent(u, ok)
    \/ \E u \in DOMAIN calls, o \in EditOutcomes : NavCaptionEdited(u, o)
    \/ \E u \in DOMAIN calls : NavTextEdited(u)
    \/ \E u \in DOMAIN calls : GoStart(u)
    \/ \E u \in DOMAIN calls, e \in BOOLEAN, fetch \in FetchResults : GoFetched(u, e, fetch)
    \/ \E u \in DOMAIN calls, ok \in BOOLEAN : GoNoticeSent(u, ok)
    \/ \E r \in DOMAIN runs, dl \in DownloadOutcomes, models \in LoopModelOutcomes :
          \E resp \in LoopResponses(runs[r].nvar) : PrepareArticle(r, resp, dl, models)
    \/ \E r \in DOMAIN runs, ok \in BOOLEAN : SendResult(r, ok)
    \/ \E r \in DOMAIN runs, ok \in BOOLEAN : SendInfo(r, ok)
    \/ \E r \in DOMAIN runs, ok \in BOOLEAN : NotifyFailure(r, ok)

Spec == Init /\ [][Next]_vars

\* ------------------------------------------- function-level specifications

\* gemini_variants_for_item applied to every response of the bounded set, for
\* every number of variants the menu can configure.
Responses ==
    {RespRaise, RespBadJson}
    \cup {RespList(es) : es \in UNION {[1..k -> EntryKinds] : k \in 0..MaxResp}}

NvarRange == 3..5

InitVariants ==
    /\ InitBot
    /\ fn_in \in {[resp |-> r, nvar |-> n, outcomes |-> <<>>] :
                     r \in Responses, n \in NvarRange}
    /\ fn_out = NoResult

CallVariants ==
    /\ ~fn_out.called
    /\ fn_in.nvar \in NvarRange
    /\ fn_out' = [fn_out EXCEPT
          !.called = TRUE,
          !.variants = gemini_variants_for_item(fn_in.resp, fn_in.nvar)]
    /\ UNCHANGED <<bot_vars, fn_in>>

SpecVariants == InitVariants /\ [][CallVariants]_vars

\* gemini_generate_image_file applied to every combination of outcomes of the
\* three image models.
InitImage ==
    /\ InitBot
    /\ fn_in \in {[resp |-> RespRaise, nvar |-> 0, outcomes |-> o] :
                     o \in [1..Len(IMAGE_MODELS) -> ModelOutcomes]}
    /\ fn_out = NoResult

\* Every iteration that obtained bytes leaves a temporary file (238), be it
\* the one returned or one whose writing failed.
CallImage ==
    /\ ~fn_out.called
    /\ fn_in.outcomes # <<>>
    /\ LET res == gemini_generate_image_file(fn_in.outcomes)
       IN  /\ fn_out' = [fn_out EXCEPT !.called = TRUE, !.image = res]
           /\ tmp_files' = mkstemp_times(tmp_files, res.made)
    /\ UNCHANGED <<CHAT_CONF, MSG_STATE, next_mid, keyboards, job_counter, update_id,
                   calls, runs, reported, nav_trail, fn_in>>

SpecImage == InitImage /\ [][CallImage]_vars

\* ------------------------------------------------ navigation after a "go" run

\* The updates the bot has taken before the navigation begins: a "var"
\* button of the menu, then "go".
NavHistory == <<<<"conf", "var">>, <<"go">>>>

\* The bot after chat 1 pressed the menu button conf:var:val and then "go",
\* and the run processed two articles without a failure: the first has a
\* thumbnail and went out as photo message 1, with the variants the Gemini
\* response resp gives; the second has no image and went out as text
\* message 3, with nvar variants; messages 2 and 4 are the "Sumber" messages.
\* Spec reaches each of these states.
AfterGo(val, resp) ==
    LET nvar == Max(3, Min(5, int(val)))
        conf == init_chat(EmptyDict, 1)
        full == RespList([i \in 1..nvar |-> "ok"])
    IN  /\ CHAT_CONF = [conf EXCEPT ![1] = conf_set(conf[1], "var", val)]
        /\ MSG_STATE =
              DictSet(DictSet(EmptyDict, <<1, 1>>,
                              [variants |-> gemini_variants_for_item(resp, nvar),
                               index |-> 0, url |-> "u"]),
                      <<1, 3>>,
                      [variants |-> gemini_variants_for_item(full, nvar),
                       index |-> 0, url |-> "u"])
        /\ next_mid = bot_sends([c \in Chats |-> 1], 1, 4)
        /\ keyboards = DictSet(DictSet(EmptyDict, <<1, 1>>, "photo"), <<1, 3>>, "text")
        /\ tmp_files = mkstemp_times({}, 1)
        /\ job_counter = 2
        /\ update_id = Len(NavHistory)
        /\ calls = EmptyDict
        /\ runs = EmptyDict
        /\ reported = {1, 2}
        /\ nav_trail = <<>>

InitNav ==
    /\ \E val \in {"3", "4", "5"} :
          \E resp \in {x \in LoopResponses(Max(3, Min(5, int(val)))) :
                          build_caption_html_ok(
                              gemini_variants_for_item(x, Max(3, Min(5, int(val))))[1])} :
              AfterGo(val, resp)
    /\ fn_in = NoCall
    /\ fn_out = NoResult

\* A navigation button is pressed.
NavCallback(cid, data, mid) ==
    /\ data[1] = "nav"
    /\ CallbackWithin(cid, data, mid, Len(NavHistory) + MaxNavs)

NextNav ==
    \/ \E cid \in Chats : \E q \in Callbacks(cid) : NavCallback(cid, q.data, q.mid)
    \/ \E u \in DOMAIN calls : AnswerRaises(u)
    \/ \E u \in DOMAIN calls : OnNav(u)
    \/ \E u \in DOMAIN calls : NavAlerted(u)
    \/ \E u \in DOMAIN calls, ok \in BOOLEAN : NavAllSent(u, ok)
    \/ \E u \in DOMAIN calls, o \in EditOutcomes : NavCaptionEdited(u, o)
    \/ \E u \in DOMAIN calls : NavTextEdited(u)

SpecNav == InitNav /\ [][NextNav]_vars

\* ------------------------------------------------------------------ claims

\* The failure notification of the article run r is at is delivered in
\* this step.
NotificationDelivered(r) ==
    /\ runs[r].pc = "notify"
    /\ r \in DOMAIN runs' => runs'[r].pc # "notify"
    /\ next_mid'[runs[r].cid] = next_mid[runs[r].cid] + 1

\* C1: a failure of one article never ends the loop: a "go" handler ends
\* only after the loop body was entered for every source, and never in a
\* step in which the failure notification of its article is not delivered.
C1_FailureNeverEndsLoop ==
    [][\A r \in DOMAIN runs :
          r \notin DOMAIN runs' =>
              /\ runs[r].i = runs[r].n
              /\ runs[r].job.begun
              /\ (runs[r].pc = "notify" => NotificationDelivered(r))]_vars

\* The loop body is entered for an article only when the outcome of every
\* article submitted before it, in the same run or in an earlier one, has
\* been reported to the chat.
C2_BeginsAfterEarlierOutcomes ==
    \A s \in DOMAIN runs :
        runs[s].job.begun =>
            \A j \in 1..(runs[s].base + runs[s].i - 1) : j \in reported

\* A step that reports an outcome reports it for the article a loop is at,
\* and no article submitted later has been reported before.
C2_ReportsInOrder ==
    \A j \in reported' \ reported :
        /\ \E r \in DOMAIN runs : j = runs[r].base + runs[r].i
        /\ \A k \in reported : k < j

\* C2: articles are processed in strict submission (FIFO) order: for any two
\* articles A then B, A's outcome (result message or failure notification)
\* is reported before B's processing begins, and outcomes are reported in
\* submission order.
C2_FifoOrder == [](C2_BeginsAfterEarlierOutcomes) /\ [][C2_ReportsInOrder]_vars

\* No two handlers, and so no two "go" runs, are in progress at once.
C3_AtMostOneRun == Cardinality(InProgress) <= 1

\* While a run is suspended at an await no update is taken, no other handler
\* makes a step, CHAT_CONF is not written and MSG_STATE only gains the entry
\* of the article that run is at.
C3_NoOtherHandler ==
    DOMAIN runs # {} =>
        /\ update_id' = update_id
        /\ calls' = calls
        /\ CHAT_CONF' = CHAT_CONF
        /\ DOMAIN runs' \subseteq DOMAIN runs
        /\ \A k \in DOMAIN MSG_STATE :
              k \in DOMAIN MSG_STATE' /\ MSG_STATE'[k] = MSG_STATE[k]
        /\ \A k \in (DOMAIN MSG_STATE') \ (DOMAIN MSG_STATE) :
              \E r \in DOMAIN runs' : runs'[r].job.key = k

\* C3: at most one "go" run is in flight at any time, and no other handler
\* reads or writes CHAT_CONF and MSG_STATE while it is suspended at an await.
C3_OneInFlight == [](C3_AtMostOneRun) /\ [][C3_NoOtherHandler]_vars

\* C3 witness: the run of a second "go" is suspended at the "Sumber" send
\* after registering its message, an earlier run having sent a result message.
C3_Witness ==
    \E r \in DOMAIN runs :
        /\ r > 1
        /\ runs[r].i = 1
        /\ runs[r].pc = "info"
        /\ runs[r].job.key \in DOMAIN MSG_STATE
        /\ \E k \in DOMAIN keyboards : k # runs[r].job.key

\* C4: every temporary file a run created is gone when the next article
\* begins, and no temporary file exists when no run is in progress.
C4_TempFilesReleased ==
    /\ \A r \in DOMAIN runs :
          (runs[r].pc = "loop" /\ runs[r].i > 1) => runs[r].files \cap tmp_files = {}
    /\ DOMAIN runs = {} => tmp_files = {}

\* C5: an article gets exactly one terminal outcome: a failure notification
\* is never delivered for an article whose result message was delivered, and
\* an article reported as failed has no MSG_STATE entry.
C5_ExactlyOneOutcome ==
    [][\A r \in DOMAIN runs :
          NotificationDelivered(r) =>
              /\ ~runs[r].job.sent
              /\ runs[r].job.key \notin DOMAIN MSG_STATE']_vars

\* C6: gemini_variants_for_item returns exactly nvar variants.
C6_ExactlyNvarVariants ==
    fn_out.called => Len(fn_out.variants) = fn_in.nvar

\* The image the docstring promises for an article, from what the feed, the
\* download and the image models did.
ExpectedKind(item, dl, gen) ==
    IF item.image /\ dl = "ok" THEN "thumb"
    ELSE IF \E k \in DOMAIN gen : gen[k] \in {"inline", "datauri"} THEN "gen"
    ELSE "text"

\* C7: image selection degrades without ever failing the article: every
\* article an image was selected for (its thumbnail when the download
\* succeeded, else a generated illustration, else none) has, once the send of
\* its result message is over, that message sent with the carousel keyboard
\* and registered in MSG_STATE with index 0; the message is a photo unless
\* both the thumbnail and the generation failed.
C7_NeverFailsArticle ==
    \A r \in DOMAIN runs :
        runs[r].job.selected /\ runs[r].pc # "send" =>
            LET run == runs[r]
                cur == run.cur
            IN  /\ run.job.sent
                /\ run.job.key \in DOMAIN MSG_STATE
                /\ MSG_STATE[run.job.key].index = 0
                /\ run.job.key \in DOMAIN keyboards
                /\ run.pc = "info" =>
                      /\ cur.kind = ExpectedKind(run.item, cur.dl, cur.gen)
                      /\ keyboards[run.job.key] =
                            IF cur.kind = "text" THEN "text" ELSE "photo"
                      /\ MSG_STATE[run.job.key].variants = cur.variants

\* C8: the models are tried in list order; the result comes from the first
\* model whose image bytes are obtained and written, and no later model is
\* tried; the result is None exactly when every model fails, after all were
\* tried; the only files left are the one returned and those of earlier
\* iterations whose writing failed.
C8_FirstSuccessWins ==
    fn_out.called =>
        LET o == fn_in.outcomes
            wins == {k \in DOMAIN o : o[k] \in {"inline", "datauri"}}
            res == fn_out.image
            last == IF wins = {} THEN Len(o)
                    ELSE CHOOSE k \in wins : \A j \in wins : k <= j
            orphans == {k \in 1..last : o[k] = "write_fails"}
        IN  /\ res.tried = SubSeq(IMAGE_MODELS, 1, last)
            /\ res.model = IF wins = {} THEN None ELSE IMAGE_MODELS[last]
            /\ Cardinality(tmp_files) =
                  Cardinality(orphans) + (IF wins = {} THEN 0 ELSE 1)

\* C8 witness: the first model raised, the second yielded an image through
\* resp.text, the third would have yielded one too and was not tried.
C8_Witness ==
    /\ fn_out.called
    /\ fn_in.outcomes = <<"raises", "datauri", "inline">>
    /\ fn_out.image.model = IMAGE_MODELS[2]
    /\ Len(fn_out.image.tried) = 2
    /\ Cardinality(tmp_files) = 1

\* The nav callbacks of the trail that acted on message k, in order.
TrailOf(k) == SelectSeq(nav_trail, LAMBDA e : e.key = k)

\* Every registered index is in 0..n-1.
C9_IndexInRange ==
    \A k \in DOMAIN MSG_STATE :
        /\ Len(MSG_STATE[k].variants) >= 1
        /\ MSG_STATE[k].index \in 0..(Len(MSG_STATE[k].variants) - 1)

\* Each nav callback left index+1 (next) or index-1 (prev) modulo n, wrapping
\* at both ends, and the index itself for "all".
C9_EachNavCyclic ==
    \A p \in DOMAIN nav_trail :
        LET e == nav_trail[p]
            n == e.n
        IN  /\ e.action = "next" => e.after = (IF e.before = n - 1 THEN 0 ELSE e.before + 1)
            /\ e.action = "prev" => e.after = (IF e.before = 0 THEN n - 1 ELSE e.before - 1)
            /\ e.action = "all" => e.after = e.before

\* The index of a message is what its own nav callbacks made of it: each
\* starts from where the one before it on that message ended (0 for the
\* first), whatever was pressed on other messages in between, and the index
\* registered now is where the last one ended.
C9_OwnNavsOnly ==
    \A k \in DOMAIN MSG_STATE :
        LET t == TrailOf(k)
        IN  /\ \A p \in DOMAIN t : t[p].before = (IF p = 1 THEN 0 ELSE t[p - 1].after)
            /\ MSG_STATE[k].index = (IF t = <<>> THEN 0 ELSE t[Len(t)].after)

\* On one message: next followed by prev, and prev followed by next, restore
\* the index; n consecutive next return to the index they started from.
C9_RoundTrips ==
    \A k \in DOMAIN MSG_STATE :
        LET t == TrailOf(k)
            n == Len(MSG_STATE[k].variants)
        IN  /\ \A p \in 1..(Len(t) - 1) :
                  /\ (t[p].action = "next" /\ t[p + 1].action = "prev")
                        => t[p + 1].after = t[p].before
                  /\ (t[p].action = "prev" /\ t[p + 1].action = "next")
                        => t[p + 1].after = t[p].before
            /\ \A p \in 1..(Len(t) - n + 1) :
                  (\A q \in p..(p + n - 1) : t[q].action = "next")
                      => t[p + n - 1].after = t[p].before

\* No step changes the variants or url of a message, and a step that
\* changes an index is the step of a prev or next callback pressed on that
\* very message.
C9_OthersUntouched ==
    \A k \in (DOMAIN MSG_STATE) \cap (DOMAIN MSG_STATE') :
        /\ MSG_STATE'[k].variants = MSG_STATE[k].variants
        /\ MSG_STATE'[k].url = MSG_STATE[k].url
        /\ MSG_STATE'[k].index # MSG_STATE[k].index =>
              \E u \in DOMAIN calls :
                  /\ calls[u].pc = "answer"
                  /\ calls[u].data \in {<<"nav", "prev">>, <<"nav", "next">>}
                  /\ <<calls[u].cid, calls[u].mid>> = k

\* C9: carousel navigation is cyclic on one message: next and prev move the
\* index by one modulo n, wrapping at both ends; next then prev, prev then
\* next and n consecutive next restore it; "all" leaves it; after any
\* sequence of nav callbacks it is in 0..n-1; and a nav on one message
\* changes no other message.
C9_CyclicNavigation ==
    [](C9_IndexInRange /\ C9_EachNavCyclic /\ C9_OwnNavsOnly /\ C9_RoundTrips)
    /\ [][C9_OthersUntouched]_vars

\* C9 witness: on a message with at least three variants, n consecutive next
\* went through n-1 and back to the index they started from, a nav having
\* acted on the other registered message in between.
C9_Witness ==
    \E k \in DOMAIN MSG_STATE :
        LET t == TrailOf(k)
            n == Len(MSG_STATE[k].variants)
        IN  /\ n >= 3
            /\ Len(t) >= n
            /\ \A q \in (Len(t) - n + 1)..Len(t) : t[q].action = "next"
            /\ \E q \in (Len(t) - n + 1)..Len(t) : t[q].before = n - 1
            /\ t[Len(t)].after = t[Len(t) - n + 1].before
            /\ MSG_STATE[k].index = t[Len(t)].after
            /\ \E p \in DOMAIN nav_trail :
                  /\ nav_trail[p].key # k
                  /\ nav_trail[p].action # "all"
                  /\ \E q \in DOMAIN nav_trail : q < p /\ nav_trail[q].key = k
                  /\ \E q \in DOMAIN nav_trail : q > p /\ nav_trail[q].key = k

====
